---- MODULE Spec2Model ----
(***************************************************************************)
(* Hospital API (FastAPI + SQLAlchemy): patients, doctors, appointments.   *)
(*                                                                         *)
(* The committed database is the shared state.  Every endpoint of main.py  *)
(* is a plain "def", so FastAPI runs it in a worker thread with a session  *)
(* of its own (get_db): handlers interleave at the granularity of the SQL  *)
(* statements they emit.  Each handler below is therefore a small process  *)
(* whose steps are the statements of the endpoint, in source order.  The   *)
(* arrival of a request and the reads an endpoint starts with form one     *)
(* step where no write of another handler can tell them apart: the steps   *)
(* that remain are the points where another handler's commit changes what  *)
(* this one does.                                                          *)
(*                                                                         *)
(* Patient and Doctor rows are modelled by their ids: name, phone, age,    *)
(* gender and specialty are plain stored fields that no appointment rule   *)
(* reads, so update_patient / update_doctor and the patient / doctor read  *)
(* endpoints leave the modelled state unchanged and are not actions.       *)
(*                                                                         *)
(* Every endpoint depends on get_current_user.  Spec and SpecSeq model the *)
(* requests that have passed it; SpecAuth puts the gate in front of the    *)
(* same handler steps, with logins, a clock and requests that carry any    *)
(* credential a client can produce.                                        *)
(***************************************************************************)
EXTENDS Integers, FiniteSets, Sequences, TLC

\* ------------------------------------------------------------------ bounds
MaxHandlers == 2
MaxPatients == 2
MaxDoctors == 2
MaxAppts == 2
MaxSlot == 2
MaxRequests == 6
MaxTicks == 2
MaxLogins == 1

Handlers == 1..MaxHandlers
PatientIds == 1..MaxPatients
DoctorIds == 1..MaxDoctors
ApptIds == 1..MaxAppts
\* The dates and times requests carry: slot k is date k at time
\* MaxSlot + 1 - k.
Slots == 1..MaxSlot
SlotDate(k) == k
SlotTime(k) == MaxSlot + 1 - k

VARIABLES
    patients,       \* ids of the rows of table "patients"
    doctors,        \* ids of the rows of table "doctors"
    appts,          \* rows of table "appointments"
    nextPatientId,  \* the store's id sequence for patients
    nextDoctorId,   \* the store's id sequence for doctors
    nextApptId,     \* the store's id sequence for appointments
    pc,             \* pc[h]: the statement handler h executes next
    req,            \* req[h]: path parameter and payload of h's request
    sess,           \* sess[h]: what h's session holds (loaded rows)
    res,            \* res[h]: the response h is about to send
    served,         \* history: the number of requests accepted so far
    booked,         \* history: ids whose create_appointment returned 200
    cancelled,      \* history: ids whose delete_appointment returned 200
    issued,         \* history: ids ever given to an appointment row
    assigned,       \* history: <<id, token_number>> of every token assignment
    origin,         \* history: <<id, patient_id, doctor_id>> of every insert
    now,            \* the clock (datetime.utcnow()), in minutes
    logins,         \* history: the logins answered with a token
    bearer          \* bearer[h]: the credential h's request carries

vars == <<patients, doctors, appts, nextPatientId, nextDoctorId, nextApptId,
          pc, req, sess, res, served, booked, cancelled, issued, assigned,
          origin, now, logins, bearer>>

auth == <<now, logins, bearer>>

history == <<booked, cancelled, issued, assigned, origin>>

store == <<patients, doctors, appts, nextPatientId, nextDoctorId, nextApptId>>

\* ------------------------------------------------------------------ values
\* models.Appointment: one row of table "appointments".
Appointment(id, patient_id, doctor_id, date, time, token_number) ==
    [id |-> id, patient_id |-> patient_id, doctor_id |-> doctor_id,
     date |-> date, time |-> time, token_number |-> token_number]

NoAppt == Appointment(0, 0, 0, 0, 0, 0)

\* AppointmentCreate: the payload of POST/PUT /appointments.
AppointmentCreate(patient_id, doctor_id, date, time) ==
    [patient_id |-> patient_id, doctor_id |-> doctor_id, date |-> date, time |-> time]

\* A request: the endpoint, the path parameter and the payload.
Request(op, aid, patient_id, doctor_id, date, time) ==
    [op |-> op, aid |-> aid, patient_id |-> patient_id, doctor_id |-> doctor_id,
     date |-> date, time |-> time]

NoReq == Request("none", 0, 0, 0, 0, 0)

NoSess == [id |-> 0, loaded |-> NoAppt, cascade |-> {}]

NoRes == [status |-> "none", appt |-> NoAppt, list |-> {}]

Response(status, appt, list) == [status |-> status, appt |-> appt, list |-> list]

\* HTTPException(status_code=404, detail=...)
NotFound(detail) == Response(detail, NoAppt, {})

\* An exception that is no HTTPException: FastAPI answers 500.
ServerError == Response("ServerError", NoAppt, {})

\* ------------------------------------------------------------------ queries
\* db.query(Appointment).filter(Appointment.id == appointment_id).first()
FindAppt(aid) == IF \E r \in appts : r.id = aid
                 THEN CHOOSE r \in appts : r.id = aid
                 ELSE NoAppt

ApptExists(aid) == \E r \in appts : r.id = aid

\* db.query(Patient).filter(Patient.id == payload.patient_id).first()
PatientExists(pid) == pid \in patients

\* db.query(Doctor).filter(Doctor.id == payload.doctor_id).first()
DoctorExists(did) == did \in doctors

\* ------------------------------------------------------------------ auth
SECRET_KEY == "CHANGE_THIS_TO_SOMETHING_RANDOM_AND_LONG"
OtherKey == "another key"
ACCESS_TOKEN_EXPIRE_MINUTES == 60

FAKE_USERS == [admin |-> [username |-> "admin", password |-> "admin123"]]

\* The form fields a login request may carry.
Usernames == {"admin", "guest"}
Passwords == {"admin123", "guess"}

\* A JWT: its claims and the key its signature was made with.
Jwt(key, sub, exp) == [kind |-> "jwt", key |-> key, sub |-> sub, exp |-> exp]

\* No Authorization header, and a header whose token is no JWT.
NoToken == [kind |-> "none", key |-> "", sub |-> "", exp |-> 0]
Garbage == [kind |-> "garbage", key |-> "", sub |-> "", exp |-> 0]

\* to_encode.update({"exp": expire}); jwt.encode(to_encode, SECRET_KEY, ...)
create_access_token(sub, expire) == Jwt(SECRET_KEY, sub, expire)

\* user = FAKE_USERS.get(username);
\* not (not user or user["password"] != password)
PasswordOk(username, password) ==
    /\ username \in DOMAIN FAKE_USERS
    /\ FAKE_USERS[username].password = password

\* jwt.decode(token, key, algorithms=[ALGORITHM]) at time t: a JWTError
\* unless the string is a JWT, its signature verifies under key and its exp
\* claim is not in the past (exp < now is ExpiredSignatureError).
jwt_decode(token, key, t) ==
    IF token.kind # "jwt" \/ token.key # key \/ token.exp < t
    THEN "JWTError"
    ELSE "ok"

\* Faulty variant: the claims are read without verifying the signature.
get_current_user_unverified(token, t) ==
    IF token.kind # "jwt" \/ token.exp < t \/ token.sub = ""
    THEN "401"
    ELSE token.sub

\* Depends(oauth2_scheme) answers 401 when the request has no bearer token;
\* get_current_user answers 401 on a JWTError and on a missing or empty
\* "sub", and returns the username otherwise.
get_current_user(token, t) ==
    IF token.kind = "none" THEN "401"
    ELSE IF jwt_decode(token, SECRET_KEY, t) = "JWTError" THEN "401"
    ELSE IF token.sub = "" THEN "401"
    ELSE token.sub

\* ------------------------------------------------------------------ helpers
Ok == Response("ok", NoAppt, {})

\* Idle handler h takes a request r and answers it at once.
Answer(h, r, response) ==
    /\ pc[h] = "idle"
    /\ served < MaxRequests
    /\ served' = served + 1
    /\ pc' = [pc EXCEPT ![h] = "done"]
    /\ req' = [req EXCEPT ![h] = r]
    /\ res' = [res EXCEPT ![h] = response]
    /\ UNCHANGED sess

\* Idle handler h takes a request r and goes on to statement `label`, its
\* session holding s.
Begin(h, r, label, s) ==
    /\ pc[h] = "idle"
    /\ served < MaxRequests
    /\ served' = served + 1
    /\ pc' = [pc EXCEPT ![h] = label]
    /\ req' = [req EXCEPT ![h] = r]
    /\ sess' = [sess EXCEPT ![h] = s]
    /\ UNCHANGED res

\* Handler h goes on to statement `label`.
Step(h, label) ==
    /\ pc' = [pc EXCEPT ![h] = label]
    /\ UNCHANGED <<req, sess, res, served>>

\* Handler h ends its request with `response`; get_db closes its session.
Finish(h, response) ==
    /\ pc' = [pc EXCEPT ![h] = "done"]
    /\ res' = [res EXCEPT ![h] = response]
    /\ sess' = [sess EXCEPT ![h] = NoSess]
    /\ UNCHANGED <<req, served>>

Init ==
    /\ patients = {}
    /\ doctors = {}
    /\ appts = {}
    /\ nextPatientId = 1
    /\ nextDoctorId = 1
    /\ nextApptId = 1
    /\ pc = [h \in Handlers |-> "idle"]
    /\ req = [h \in Handlers |-> NoReq]
    /\ sess = [h \in Handlers |-> NoSess]
    /\ res = [h \in Handlers |-> NoRes]
    /\ served = 0
    /\ booked = {}
    /\ cancelled = {}
    /\ issued = {}
    /\ assigned = {}
    /\ origin = {}
    /\ now = 0
    /\ logins = {}
    /\ bearer = [h \in Handlers |-> NoToken]

\* ------------------------------------------------------------------ store
\* The id the database generates for a new row (Column(Integer,
\* primary_key=True)): the next value of the table's sequence.
NewPatientId == nextPatientId
NewDoctorId == nextDoctorId
NewApptId == nextApptId

\* The flush of a session in which the rows with ids in `gone` are marked
\* deleted: one DELETE ... WHERE id = ? per row.  A row that is no longer
\* there matches nothing, which the ORM reports as a warning, not an error.
DeleteRows(gone) == {r \in appts : r.id \notin gone}

\* ------------------------------------------------------------------ patients
\* POST /patients: db.add(p); db.commit().  The refresh and the return read
\* the new row only.
create_patient(h) ==
    /\ pc[h] = "idle"
    /\ nextPatientId <= MaxPatients
    /\ served < MaxRequests
    /\ served' = served + 1
    /\ patients' = patients \cup {NewPatientId}
    /\ nextPatientId' = nextPatientId + 1
    /\ UNCHANGED <<doctors, appts, nextDoctorId, nextApptId,
                   pc, req, sess, res, history>>

\* Faulty variant: the relationship carries no delete cascade.
PatientAppointments_no_cascade(pid) == {}

\* Faulty variant: the cascade takes the appointments that were booked for
\* the patient, wherever a reschedule has moved them since.
PatientAppointments_as_booked(pid) == {o[1] : o \in {x \in origin : x[2] = pid}}

\* relationship("Appointment", back_populates="patient",
\*              cascade="all, delete-orphan"): the rows p.appointments loads.
PatientAppointments(pid) == {r.id : r \in {x \in appts : x.patient_id = pid}}

\* DELETE /patients/{patient_id}, up to db.delete(p): the patient is looked
\* up (404 if absent) and db.delete(p) collects the delete cascade, which
\* loads p.appointments into the session.
delete_patient(h) ==
    /\ \E pid \in PatientIds :
        LET r == Request("delete_patient", 0, pid, 0, 0, 0) IN
        IF PatientExists(pid)
        THEN Begin(h, r, "delete_patient_commit",
                   [NoSess EXCEPT !.cascade = PatientAppointments(pid)])
        ELSE Answer(h, r, NotFound("Patient not found"))
    /\ UNCHANGED <<store, history>>

\* db.commit(): deletes the collected appointments, then the patient.
delete_patient_commit(h) ==
    /\ pc[h] = "delete_patient_commit"
    /\ appts' = DeleteRows(sess[h].cascade)
    /\ patients' = patients \ {req[h].patient_id}
    /\ Finish(h, Ok)
    /\ UNCHANGED <<doctors, nextPatientId, nextDoctorId, nextApptId, history>>

\* ------------------------------------------------------------------ doctors
\* POST /doctors
create_doctor(h) ==
    /\ pc[h] = "idle"
    /\ nextDoctorId <= MaxDoctors
    /\ served < MaxRequests
    /\ served' = served + 1
    /\ doctors' = doctors \cup {NewDoctorId}
    /\ nextDoctorId' = nextDoctorId + 1
    /\ UNCHANGED <<patients, appts, nextPatientId, nextApptId,
                   pc, req, sess, res, history>>

\* relationship("Appointment", back_populates="doctor",
\*              cascade="all, delete-orphan"): the rows d.appointments loads.
DoctorAppointments(did) == {r.id : r \in {x \in appts : x.doctor_id = did}}

\* DELETE /doctors/{doctor_id}, up to db.delete(d).
delete_doctor(h) ==
    /\ \E did \in DoctorIds :
        LET r == Request("delete_doctor", 0, 0, did, 0, 0) IN
        IF DoctorExists(did)
        THEN Begin(h, r, "delete_doctor_commit",
                   [NoSess EXCEPT !.cascade = DoctorAppointments(did)])
        ELSE Answer(h, r, NotFound("Doctor not found"))
    /\ UNCHANGED <<store, history>>

\* db.commit(): deletes the collected appointments, then the doctor.
delete_doctor_commit(h) ==
    /\ pc[h] = "delete_doctor_commit"
    /\ appts' = DeleteRows(sess[h].cascade)
    /\ doctors' = doctors \ {req[h].doctor_id}
    /\ Finish(h, Ok)
    /\ UNCHANGED <<patients, nextPatientId, nextDoctorId, nextApptId, history>>

\* ------------------------------------------------------------------ book
\* Handlers that will still insert an appointment row.
Inserting == {g \in Handlers : pc[g] = "create_appointment_insert"}

\* Faulty variant: the doctor is checked before the patient.
CheckReferences_doctor_first(patient_id, doctor_id) ==
    IF ~DoctorExists(doctor_id) THEN "Doctor not found"
    ELSE IF ~PatientExists(patient_id) THEN "Patient not found"
    ELSE "ok"

\* The two existence checks of create_appointment and update_appointment,
\* in source order: the 404 they raise, or "ok".
CheckReferences(patient_id, doctor_id) ==
    IF ~PatientExists(patient_id) THEN "Patient not found"
    ELSE IF ~DoctorExists(doctor_id) THEN "Doctor not found"
    ELSE "ok"

\* Faulty variant: the row is added and flushed before the checks, so a
\* booking answered with 404 has taken an id from the sequence.
create_appointment_flush_first(h) ==
    /\ nextApptId + Cardinality(Inserting) <= MaxAppts
    /\ \E pid \in PatientIds, did \in DoctorIds, k \in Slots :
        LET r == Request("create_appointment", 0, pid, did,
                         SlotDate(k), SlotTime(k)) IN
        IF CheckReferences(pid, did) = "ok"
        THEN /\ Begin(h, r, "create_appointment_insert", NoSess)
             /\ nextApptId' = nextApptId
        ELSE /\ Answer(h, r, NotFound(CheckReferences(pid, did)))
             /\ nextApptId' = nextApptId + 1
    /\ UNCHANGED <<patients, doctors, appts, nextPatientId, nextDoctorId,
                   history>>

\* POST /appointments, the checks: patient, then doctor.
create_appointment(h) ==
    /\ nextApptId + Cardinality(Inserting) <= MaxAppts
    /\ \E pid \in PatientIds, did \in DoctorIds, k \in Slots :
        LET r == Request("create_appointment", 0, pid, did,
                         SlotDate(k), SlotTime(k)) IN
        IF CheckReferences(pid, did) = "ok"
        THEN Begin(h, r, "create_appointment_insert", NoSess)
        ELSE Answer(h, r, NotFound(CheckReferences(pid, did)))
    /\ UNCHANGED <<store, history>>

\* appt = Appointment(**payload.model_dump(), token_number=0)
NewAppointment(id, payload) ==
    Appointment(id, payload.patient_id, payload.doctor_id, payload.date,
                payload.time, 0)

\* db.add(appt); db.commit(): the row is inserted and committed with the
\* placeholder token.
create_appointment_insert(h) ==
    /\ pc[h] = "create_appointment_insert"
    /\ appts' = appts \cup {NewAppointment(NewApptId, req[h])}
    /\ nextApptId' = nextApptId + 1
    /\ pc' = [pc EXCEPT ![h] = "create_appointment_token"]
    /\ sess' = [sess EXCEPT ![h].id = NewApptId]
    /\ issued' = issued \cup {NewApptId}
    /\ origin' = origin \cup {<<NewApptId, req[h].patient_id, req[h].doctor_id>>}
    /\ UNCHANGED <<patients, doctors, nextPatientId, nextDoctorId,
                   req, res, served, booked, cancelled, assigned>>

\* Faulty variant: the token is never patched and stays at the placeholder.
TokenNumber_placeholder(appt) == 0

\* Faulty variant: the token is taken from the wrong column.
TokenNumber_patient_id(appt) == appt.patient_id

\* appt.token_number = appt.id
TokenNumber(appt) == appt.id

\* The row r with its token_number column set.
WithToken(r, token) == [r EXCEPT !.token_number = token]

\* Faulty variant: the token UPDATE has no WHERE clause and patches every
\* row of the table.
create_appointment_token_all_rows(h) ==
    /\ pc[h] = "create_appointment_token"
    /\ IF ApptExists(sess[h].id)
       THEN /\ appts' = {WithToken(r, TokenNumber(FindAppt(sess[h].id))) :
                            r \in appts}
            /\ assigned' = assigned \cup
                   {<<sess[h].id, TokenNumber(FindAppt(sess[h].id))>>}
            /\ Step(h, "create_appointment_return")
       ELSE /\ appts' = appts
            /\ assigned' = assigned
            /\ Finish(h, ServerError)
    /\ UNCHANGED <<patients, doctors, nextPatientId, nextDoctorId, nextApptId,
                   booked, cancelled, issued, origin>>

\* db.refresh(appt); appt.token_number = appt.id; db.commit().  The refresh
\* is a SELECT of the row by primary key and raises InvalidRequestError when
\* the row is gone; the UPDATE ... SET token_number = ? WHERE id = ? raises
\* StaleDataError when it matches no row.  Either way the answer is 500.
create_appointment_token(h) ==
    /\ pc[h] = "create_appointment_token"
    /\ IF ApptExists(sess[h].id)
       THEN /\ appts' = (appts \ {FindAppt(sess[h].id)})
                          \cup {WithToken(FindAppt(sess[h].id),
                                          TokenNumber(FindAppt(sess[h].id)))}
            /\ assigned' = assigned \cup
                   {<<sess[h].id, TokenNumber(FindAppt(sess[h].id))>>}
            /\ Step(h, "create_appointment_return")
       ELSE /\ appts' = appts
            /\ assigned' = assigned
            /\ Finish(h, ServerError)
    /\ UNCHANGED <<patients, doctors, nextPatientId, nextDoctorId, nextApptId,
                   booked, cancelled, issued, origin>>

\* db.refresh(appt); return appt
create_appointment_return(h) ==
    /\ pc[h] = "create_appointment_return"
    /\ IF ApptExists(sess[h].id)
       THEN /\ Finish(h, Response("ok", FindAppt(sess[h].id), {}))
            /\ booked' = booked \cup {sess[h].id}
       ELSE /\ Finish(h, ServerError)
            /\ booked' = booked
    /\ UNCHANGED <<store, cancelled, issued, assigned, origin>>

\* ------------------------------------------------------------------ read
\* GET /appointments/{appointment_id}
get_appointment(h) ==
    /\ \E aid \in ApptIds :
        LET r == Request("get_appointment", aid, 0, 0, 0, 0) IN
        IF ApptExists(aid)
        THEN Answer(h, r, Response("ok", FindAppt(aid), {}))
        ELSE Answer(h, r, NotFound("Appointment not found"))
    /\ UNCHANGED <<store, history>>

\* GET /appointments: db.query(Appointment).all()
list_appointments(h) ==
    /\ Answer(h, Request("list_appointments", 0, 0, 0, 0, 0),
              Response("ok", NoAppt, appts))
    /\ UNCHANGED <<store, history>>

\* ------------------------------------------------------------------ reschedule
\* PUT /appointments/{appointment_id}, the lookup: the row is loaded into
\* the session, 404 if absent.
update_appointment(h) ==
    /\ \E aid \in ApptIds, pid \in PatientIds, did \in DoctorIds, k \in Slots :
        LET r == Request("update_appointment", aid, pid, did,
                         SlotDate(k), SlotTime(k)) IN
        IF ApptExists(aid)
        THEN Begin(h, r, "update_appointment_checks",
                   [NoSess EXCEPT !.loaded = FindAppt(aid)])
        ELSE Answer(h, r, NotFound("Appointment not found"))
    /\ UNCHANGED <<store, history>>

\* Faulty variant: the payload is written to the row before the references
\* are checked.
update_appointment_checks_write_first(h) ==
    /\ pc[h] = "update_appointment_checks"
    /\ appts' = {[k \in DOMAIN r |->
                    IF r.id = req[h].aid
                       /\ k \in {"patient_id", "doctor_id", "date", "time"}
                    THEN req[h][k] ELSE r[k]] : r \in appts}
    /\ IF CheckReferences(req[h].patient_id, req[h].doctor_id) = "ok"
       THEN Step(h, "update_appointment_commit")
       ELSE Finish(h, NotFound(CheckReferences(req[h].patient_id, req[h].doctor_id)))
    /\ UNCHANGED <<patients, doctors, nextPatientId, nextDoctorId, nextApptId,
                   history>>

\* The checks: patient, then doctor.
update_appointment_checks(h) ==
    /\ pc[h] = "update_appointment_checks"
    /\ IF CheckReferences(req[h].patient_id, req[h].doctor_id) = "ok"
       THEN Step(h, "update_appointment_commit")
       ELSE Finish(h, NotFound(CheckReferences(req[h].patient_id, req[h].doctor_id)))
    /\ UNCHANGED <<store, history>>

\* payload.model_dump().items(): the fields of AppointmentCreate.
PayloadFields == {"patient_id", "doctor_id", "date", "time"}

\* for k, v in payload.model_dump().items(): setattr(appt, k, v).  The unit
\* of work writes the columns whose new value differs from the loaded one.
Modified(loaded, payload) == {k \in PayloadFields : payload[k] # loaded[k]}

\* Faulty variant: the update also resets the token to the column default.
UpdateRow_resets_token(r, payload, cols) ==
    [k \in DOMAIN r |-> IF k \in cols THEN payload[k]
                        ELSE IF k = "token_number" THEN 0 ELSE r[k]]

\* UPDATE appointments SET <cols> WHERE id = ?: row r after it.
UpdateRow(r, payload, cols) ==
    [k \in DOMAIN r |-> IF k \in cols THEN payload[k] ELSE r[k]]

\* setattr loop; db.commit().  With no modified column no UPDATE is sent;
\* an UPDATE that matches no row raises StaleDataError.
update_appointment_commit(h) ==
    /\ pc[h] = "update_appointment_commit"
    /\ LET cols == Modified(sess[h].loaded, req[h]) IN
       IF cols = {}
       THEN /\ appts' = appts
            /\ Step(h, "update_appointment_return")
       ELSE IF ApptExists(req[h].aid)
       THEN /\ appts' = (appts \ {FindAppt(req[h].aid)})
                          \cup {UpdateRow(FindAppt(req[h].aid), req[h], cols)}
            /\ Step(h, "update_appointment_return")
       ELSE /\ appts' = appts
            /\ Finish(h, ServerError)
    /\ UNCHANGED <<patients, doctors, nextPatientId, nextDoctorId, nextApptId,
                   history>>

\* db.refresh(appt); return appt
update_appointment_return(h) ==
    /\ pc[h] = "update_appointment_return"
    /\ IF ApptExists(req[h].aid)
       THEN Finish(h, Response("ok", FindAppt(req[h].aid), {}))
       ELSE Finish(h, ServerError)
    /\ UNCHANGED <<store, history>>

\* ------------------------------------------------------------------ cancel
\* Faulty variant: the row is deleted without being looked up first.
delete_appointment_unchecked(h) ==
    /\ \E aid \in ApptIds :
        Begin(h, Request("delete_appointment", aid, 0, 0, 0, 0),
              "delete_appointment_commit", NoSess)
    /\ UNCHANGED <<store, history>>

\* DELETE /appointments/{appointment_id}, the lookup: 404 if absent.
delete_appointment(h) ==
    /\ \E aid \in ApptIds :
        LET r == Request("delete_appointment", aid, 0, 0, 0, 0) IN
        IF ApptExists(aid)
        THEN Begin(h, r, "delete_appointment_commit", NoSess)
        ELSE Answer(h, r, NotFound("Appointment not found"))
    /\ UNCHANGED <<store, history>>

\* Faulty variant: the delete cascades from the appointment to its patient
\* and its doctor.
delete_appointment_commit_cascades(h) ==
    /\ pc[h] = "delete_appointment_commit"
    /\ appts' = DeleteRows({req[h].aid})
    /\ patients' = patients \ {r.patient_id : r \in {x \in appts : x.id = req[h].aid}}
    /\ doctors' = doctors \ {r.doctor_id : r \in {x \in appts : x.id = req[h].aid}}
    /\ cancelled' = cancelled \cup {req[h].aid}
    /\ Finish(h, Ok)
    /\ UNCHANGED <<nextPatientId, nextDoctorId, nextApptId, booked, issued, assigned,
                   origin>>

\* db.delete(appt); db.commit(); return {"detail": "Appointment deleted"}
delete_appointment_commit(h) ==
    /\ pc[h] = "delete_appointment_commit"
    /\ appts' = DeleteRows({req[h].aid})
    /\ cancelled' = cancelled \cup {req[h].aid}
    /\ Finish(h, Ok)
    /\ UNCHANGED <<patients, doctors, nextPatientId, nextDoctorId, nextApptId, booked, issued, assigned,
                   origin>>

\* ------------------------------------------------------------------ failures
\* The statements that write: each may be rejected by the store.
Commits == {"delete_patient_commit", "delete_doctor_commit",
            "create_appointment_insert", "create_appointment_token",
            "update_appointment_commit", "delete_appointment_commit"}

\* db.commit() raises (the store is unreachable or rejects the write): the
\* transaction is rolled back, the exception propagates and FastAPI
\* answers 500.  What earlier commits wrote stays.
commit_fails(h) ==
    /\ pc[h] \in Commits
    /\ Finish(h, ServerError)
    /\ UNCHANGED <<store, history>>

\* The response is sent and the worker thread is free again.
respond(h) ==
    /\ pc[h] = "done"
    /\ pc' = [pc EXCEPT ![h] = "idle"]
    /\ req' = [req EXCEPT ![h] = NoReq]
    /\ res' = [res EXCEPT ![h] = NoRes]
    /\ UNCHANGED <<store, sess, served, history>>

\* ------------------------------------------------------------------ spec
HandlerStep(h) ==
    \/ create_patient(h)
    \/ delete_patient(h)
    \/ delete_patient_commit(h)
    \/ create_doctor(h)
    \/ delete_doctor(h)
    \/ delete_doctor_commit(h)
    \/ create_appointment(h)
    \/ create_appointment_insert(h)
    \/ create_appointment_token(h)
    \/ create_appointment_return(h)
    \/ get_appointment(h)
    \/ list_appointments(h)
    \/ update_appointment(h)
    \/ update_appointment_checks(h)
    \/ update_appointment_commit(h)
    \/ update_appointment_return(h)
    \/ delete_appointment(h)
    \/ delete_appointment_commit(h)
    \/ commit_fails(h)
    \/ respond(h)

\* A step of handler h whose request has passed the gate: the clock and the
\* tokens play no part in it.
Serve(h) ==
    \/ create_patient(h) /\ UNCHANGED auth
    \/ delete_patient(h) /\ UNCHANGED auth
    \/ delete_patient_commit(h) /\ UNCHANGED auth
    \/ create_doctor(h) /\ UNCHANGED auth
    \/ delete_doctor(h) /\ UNCHANGED auth
    \/ delete_doctor_commit(h) /\ UNCHANGED auth
    \/ create_appointment(h) /\ UNCHANGED auth
    \/ create_appointment_insert(h) /\ UNCHANGED auth
    \/ create_appointment_token(h) /\ UNCHANGED auth
    \/ create_appointment_return(h) /\ UNCHANGED auth
    \/ get_appointment(h) /\ UNCHANGED auth
    \/ list_appointments(h) /\ UNCHANGED auth
    \/ update_appointment(h) /\ UNCHANGED auth
    \/ update_appointment_checks(h) /\ UNCHANGED auth
    \/ update_appointment_commit(h) /\ UNCHANGED auth
    \/ update_appointment_return(h) /\ UNCHANGED auth
    \/ delete_appointment(h) /\ UNCHANGED auth
    \/ delete_appointment_commit(h) /\ UNCHANGED auth
    \/ commit_fails(h) /\ UNCHANGED auth
    \/ respond(h) /\ UNCHANGED auth

\* Request handlers run concurrently in FastAPI's thread pool.
Next == \E h \in Handlers : Serve(h)

Spec == Init /\ [][Next]_vars

\* Sequential histories: one worker serves the requests one after another.
NextSeq == Serve(1)

SpecSeq == Init /\ [][NextSeq]_vars

\* ------------------------------------------------------------------ gate
\* The clock advances.
tick ==
    /\ now < MaxTicks * ACCESS_TOKEN_EXPIRE_MINUTES
    /\ now' = now + ACCESS_TOKEN_EXPIRE_MINUTES
    /\ UNCHANGED <<store, pc, req, sess, res, served, history, logins, bearer>>

\* POST /token: 401 unless the user is known and the password is theirs,
\* else a token for the user, valid for ACCESS_TOKEN_EXPIRE_MINUTES.
login_for_access_token ==
    /\ Cardinality(logins) < MaxLogins
    /\ \E username \in Usernames, password \in Passwords :
        IF PasswordOk(username, password)
        THEN logins' = logins \cup
                 {[username |-> username, password |-> password,
                   token |-> create_access_token(
                                 FAKE_USERS[username].username,
                                 now + ACCESS_TOKEN_EXPIRE_MINUTES)]}
        ELSE logins' = logins
    /\ UNCHANGED <<store, pc, req, sess, res, served, history, now, bearer>>

\* The tokens the logins have handed out.
Issued == {l.token : l \in logins}

\* What a client can send as its credential: nothing, a string that is no
\* JWT, a token it was issued, or a token signed with a key of its own.  It
\* cannot produce a signature under SECRET_KEY.
Presentable ==
    {NoToken, Garbage} \cup Issued
        \cup {Jwt(OtherKey, sub, MaxTicks * ACCESS_TOKEN_EXPIRE_MINUTES
                                   + ACCESS_TOKEN_EXPIRE_MINUTES) :
                  sub \in {"admin", ""}}

\* The endpoints that depend on get_current_user.
Endpoints ==
    {"create_patient", "delete_patient", "create_doctor", "delete_doctor",
     "create_appointment", "get_appointment", "list_appointments",
     "update_appointment", "delete_appointment"}

Unauthorized == Response("Invalid token", NoAppt, {})

\* A request whose token get_current_user accepts reaches its endpoint.
authorized(h) ==
    /\ pc[h] = "idle"
    /\ \E token \in Presentable :
        /\ get_current_user(token, now) # "401"
        /\ bearer' = [bearer EXCEPT ![h] = token]
    /\ HandlerStep(h)
    /\ UNCHANGED <<now, logins>>

\* A request whose token get_current_user rejects is answered with 401 by
\* the dependency; the endpoint is not called.
unauthorized(h) ==
    /\ pc[h] = "idle"
    /\ \E token \in Presentable, op \in Endpoints :
        /\ get_current_user(token, now) = "401"
        /\ bearer' = [bearer EXCEPT ![h] = token]
        /\ req' = [req EXCEPT ![h] = Request(op, 0, 0, 0, 0, 0)]
    /\ pc' = [pc EXCEPT ![h] = "done"]
    /\ res' = [res EXCEPT ![h] = Unauthorized]
    /\ UNCHANGED <<store, sess, served, history, now, logins>>

\* An endpoint that was called goes on; with the response the request and
\* its credential are gone.
proceed(h) ==
    /\ pc[h] # "idle"
    /\ HandlerStep(h)
    /\ bearer' = [bearer EXCEPT ![h] = IF pc'[h] = "idle" THEN NoToken ELSE @]
    /\ UNCHANGED <<now, logins>>

\* The API behind its gate, one worker: logins, the clock, and requests
\* with whatever credential the client sends.
NextAuth ==
    \/ tick
    \/ login_for_access_token
    \/ authorized(1)
    \/ unauthorized(1)
    \/ proceed(1)

SpecAuth == Init /\ [][NextAuth]_vars

\* ------------------------------------------------------------------ claims
\* Handler h produces its response in this step.
Sent(h) == pc[h] # "done" /\ pc'[h] = "done"

\* Handler h takes a request for endpoint op in this step.
Taken(h, op) == pc[h] = "idle" /\ pc'[h] # "idle" /\ req'[h].op = op

\* The appointment rows a response shows.
Rows(response) ==
    response.list \cup (IF response.appt = NoAppt THEN {} ELSE {response.appt})

Reads == {"get_appointment", "list_appointments"}

Others(h) == Handlers \ {h}

\* C1: the appointment create_appointment returns has token_number equal to
\* its id (the id of the row it inserted), and every get or list answered
\* after the booking has returned shows that row, if at all, with that same
\* token_number.
C1_TokenIsId ==
    [][\A h \in Handlers : (Sent(h) /\ res'[h].status = "ok") =>
        /\ req'[h].op = "create_appointment" =>
              /\ res'[h].appt.id = sess[h].id
              /\ res'[h].appt.token_number = res'[h].appt.id
        /\ req'[h].op \in Reads =>
              \A r \in Rows(res'[h]) : r.id \in booked => r.token_number = r.id]_vars

\* C1 witness: a get answered with a booked appointment, while no booking is
\* under way.
C1_Witness ==
    \E h \in Handlers :
        /\ pc[h] = "done"
        /\ req[h].op = "get_appointment"
        /\ res[h].status = "ok"
        /\ res[h].appt.id \in booked
        /\ res[h].appt.token_number = res[h].appt.id
        /\ \A g \in Others(h) : pc[g] = "idle"

\* C2: no get or list shows the row of a booking that is still in progress
\* with the placeholder token 0.
C2_NoProvisionalRead ==
    \A h \in Handlers, g \in Handlers :
        (/\ pc[h] = "done"
         /\ req[h].op \in Reads
         /\ pc[g] = "create_appointment_token")
        => \A r \in Rows(res[h]) : r.id = sess[g].id => r.token_number # 0

\* C3: a booking whose patient is missing answers "Patient not found"
\* whether or not the doctor exists, one whose patient exists and whose
\* doctor is missing answers "Doctor not found", and neither changes the
\* store or consumes an id.
C3_BookNotFound ==
    [][\A h \in Handlers : Taken(h, "create_appointment") =>
        /\ req'[h].patient_id \notin patients =>
              /\ pc'[h] = "done"
              /\ res'[h].status = "Patient not found"
              /\ store' = store
              /\ issued' = issued
        /\ (req'[h].patient_id \in patients /\ req'[h].doctor_id \notin doctors) =>
              /\ pc'[h] = "done"
              /\ res'[h].status = "Doctor not found"
              /\ store' = store
              /\ issued' = issued]_vars

\* C3 witness: a booking refused for its patient although its doctor exists.
C3_Witness ==
    \E h \in Handlers :
        /\ pc[h] = "done"
        /\ req[h].op = "create_appointment"
        /\ res[h].status = "Patient not found"
        /\ req[h].patient_id \notin patients
        /\ req[h].doctor_id \in doctors

\* C4: every stored appointment references a patient and a doctor that
\* exist.
C4_NoOrphan ==
    \A r \in appts : r.patient_id \in patients /\ r.doctor_id \in doctors

\* C5: deleting a patient removes exactly the appointments of that patient
\* and deleting a doctor exactly those of that doctor, the others staying as
\* they are; no later get or list shows an appointment of a deleted patient
\* or doctor.
C5_CascadeDelete ==
    [][\A h \in Handlers :
        /\ (pc[h] = "delete_patient_commit" /\ Sent(h) /\ res'[h].status = "ok") =>
              /\ req[h].patient_id \notin patients'
              /\ appts' = {r \in appts : r.patient_id # req[h].patient_id}
        /\ (pc[h] = "delete_doctor_commit" /\ Sent(h) /\ res'[h].status = "ok") =>
              /\ req[h].doctor_id \notin doctors'
              /\ appts' = {r \in appts : r.doctor_id # req[h].doctor_id}
        /\ (Sent(h) /\ req'[h].op \in Reads) =>
              \A r \in Rows(res'[h]) :
                  r.patient_id \in patients /\ r.doctor_id \in doctors]_vars

\* C5 witness: a patient deleted whose two booked appointments are gone,
\* none of them cancelled and no doctor deleted.
C5_Witness ==
    \E h \in Handlers :
        /\ pc[h] = "done"
        /\ req[h].op = "delete_patient"
        /\ res[h].status = "ok"
        /\ Cardinality({i \in booked : ~ApptExists(i)}) >= 2
        /\ cancelled = {}
        /\ Cardinality(doctors) = nextDoctorId - 1

\* C6: a reschedule that commits overwrites patient_id, doctor_id, date and
\* time of its appointment with the payload, keeps its id and token_number,
\* and leaves every other appointment as it is; the answer is that row.
C6_Reschedule ==
    [][\A h \in Handlers :
        /\ (pc[h] = "update_appointment_commit"
            /\ pc'[h] = "update_appointment_return") =>
              /\ ApptExists(req[h].aid)
              /\ appts' = (appts \ {FindAppt(req[h].aid)}) \cup
                    {Appointment(req[h].aid, req[h].patient_id, req[h].doctor_id,
                                 req[h].date, req[h].time,
                                 FindAppt(req[h].aid).token_number)}
        /\ (pc[h] = "update_appointment_return" /\ Sent(h)) =>
              /\ res'[h].status = "ok"
              /\ res'[h].appt \in appts
              /\ res'[h].appt.id = req[h].aid
              /\ appts' = appts]_vars

\* C6 witness: a reschedule has just moved a booked appointment to another
\* patient and another date and time.
C6_Witness ==
    \E h \in Handlers :
        /\ pc[h] = "update_appointment_return"
        /\ sess[h].loaded.patient_id # req[h].patient_id
        /\ sess[h].loaded.date # req[h].date
        /\ sess[h].loaded.time # req[h].time
        /\ FindAppt(req[h].aid).patient_id = req[h].patient_id
        /\ FindAppt(req[h].aid).date = req[h].date
        /\ FindAppt(req[h].aid).token_number = req[h].aid

\* C7: with requests served one after another, a cancel of an id that was
\* cancelled before or was never given to an appointment answers
\* "Appointment not found" and changes nothing, so no id is cancelled
\* successfully twice.
C7_CancelOnce ==
    [][\A h \in Handlers :
        /\ (Taken(h, "delete_appointment")
            /\ (req'[h].aid \in cancelled \/ req'[h].aid \notin issued)) =>
              /\ pc'[h] = "done"
              /\ res'[h].status = "Appointment not found"
              /\ store' = store
        /\ (pc[h] = "delete_appointment_commit" /\ Sent(h) /\ res'[h].status = "ok") =>
              req[h].aid \notin cancelled]_vars

\* C7 witness: a cancel of an already cancelled id answered with 404.
C7_Witness ==
    \E h \in Handlers :
        /\ pc[h] = "done"
        /\ req[h].op = "delete_appointment"
        /\ res[h].status = "Appointment not found"
        /\ req[h].aid \in cancelled

\* C8: two cancels of the same appointment never both answer with success.
C8_OneCancelSucceeds ==
    \A h \in Handlers, g \in Handlers :
        (/\ h # g
         /\ pc[h] = "done" /\ pc[g] = "done"
         /\ req[h].op = "delete_appointment" /\ req[g].op = "delete_appointment"
         /\ req[h].aid = req[g].aid)
        => ~(res[h].status = "ok" /\ res[g].status = "ok")

\* C9: a booking that does not answer with success leaves no appointment row
\* of its own in the store.
C9_NoPartialBook ==
    [][\A h \in Handlers :
        (req[h].op = "create_appointment" /\ Sent(h) /\ res'[h].status # "ok") =>
            ~(\E r \in appts' : r.id = sess[h].id)]_vars

\* C10: every id given to a new appointment is greater than every id and
\* every token_number given before, and the token_number an appointment
\* receives is shared with no other appointment ever created, deleted or
\* not, and is ordered as the ids are.
C10_TokensIncrease ==
    [][/\ \A i \in issued' \ issued :
            /\ \A j \in issued : i > j
            /\ \A q \in assigned : i > q[2]
       /\ \A p \in assigned' \ assigned :
            /\ p[2] > 0
            /\ \A q \in assigned : q[1] # p[1] =>
                  /\ q[2] # p[2]
                  /\ (q[1] < p[1]) = (q[2] < p[2])]_vars

\* C10 witness: two appointments have received their tokens, the earlier one
\* cancelled and gone, the later one stored.
C10_Witness ==
    \E p \in assigned, q \in assigned :
        /\ p[1] < q[1]
        /\ p[1] \in cancelled
        /\ ~ApptExists(p[1])
        /\ ApptExists(q[1])
        /\ FindAppt(q[1]).token_number = q[2]

\* No patient, doctor or appointment has been deleted so far.
NoDeletions ==
    /\ cancelled = {}
    /\ Cardinality(patients) = nextPatientId - 1
    /\ Cardinality(doctors) = nextDoctorId - 1
    /\ {r.id : r \in appts} = issued

\* C11: as long as nothing has been deleted and every booking so far either
\* succeeded or was answered with 404, the n-th booking that succeeds returns
\* the appointment with id n and token_number n; a booking answered with 404
\* takes no id from the sequence.
C11_NthBooking ==
    [][\A h \in Handlers :
        /\ (/\ pc[h] = "create_appointment_return"
            /\ Sent(h) /\ res'[h].status = "ok"
            /\ NoDeletions
            /\ issued \ booked \subseteq {sess[h].id}) =>
              /\ res'[h].appt.id = Cardinality(booked) + 1
              /\ res'[h].appt.token_number = Cardinality(booked) + 1
        /\ (/\ Taken(h, "create_appointment")
            /\ res'[h].status \in {"Patient not found", "Doctor not found"}) =>
              /\ nextApptId' = nextApptId
              /\ issued' = issued]_vars

\* C11 witness: with one patient and one doctor and nothing deleted, the
\* second successful booking has returned id 2 and token_number 2.
C11_Witness ==
    \E h \in Handlers :
        /\ pc[h] = "done"
        /\ req[h].op = "create_appointment"
        /\ res[h].status = "ok"
        /\ res[h].appt.id = 2
        /\ res[h].appt.token_number = 2
        /\ booked = {1, 2}
        /\ patients = {1} /\ nextPatientId = 2
        /\ doctors = {1} /\ nextDoctorId = 2
        /\ NoDeletions

\* Token t was issued by a login and has not expired.
Valid(t) == t \in Issued /\ now <= t.exp

\* Handler h takes a request in this step and its endpoint is called.
Admitted(h) == pc[h] = "idle" /\ pc'[h] # "idle" /\ res'[h] # Unauthorized

\* C12: an endpoint is called only for a request whose token was issued by
\* a login with the credential pair admin / admin123 and has not expired,
\* and the store changes only at the hands of such a request; a request
\* with any other credential (none, no JWT, signed with another key, without
\* subject, expired) is answered with 401 and the store stays as it was.
C12_Gate ==
    [][/\ \A l \in logins' :
            /\ l.username = "admin" /\ l.password = "admin123"
            /\ l.token.sub = l.username
       /\ store' # store =>
            \E h \in Handlers :
                IF pc[h] = "idle" THEN Valid(bearer'[h]) ELSE bearer[h] \in Issued
       /\ \A h \in Handlers :
            /\ Admitted(h) => Valid(bearer'[h])
            /\ (pc[h] = "idle" /\ pc'[h] # "idle" /\ ~Valid(bearer'[h])) =>
                  /\ pc'[h] = "done"
                  /\ res'[h] = Unauthorized
                  /\ store' = store]_vars

\* C12 witness: a booking was made with an issued token, and a later booking
\* request carrying the same token, by then expired, has been answered 401.
C12_Witness ==
    \E h \in Handlers :
        /\ pc[h] = "done"
        /\ req[h].op = "create_appointment"
        /\ res[h] = Unauthorized
        /\ bearer[h] \in Issued
        /\ bearer[h].exp < now
        /\ booked # {}

\* C13: update_appointment checks the appointment, then the patient, then
\* the doctor, and answers with the 404 of the first check that fails,
\* whatever the later checks would have found; the request that fails
\* leaves every row, the appointment's included, as it was.
C13_RescheduleChecks ==
    [][\A h \in Handlers :
        /\ Taken(h, "update_appointment") =>
              /\ store' = store
              /\ ~ApptExists(req'[h].aid) =>
                    /\ pc'[h] = "done"
                    /\ res'[h].status = "Appointment not found"
        /\ (pc[h] = "update_appointment_checks" /\ pc'[h] # pc[h]) =>
              /\ ~PatientExists(req[h].patient_id) =>
                    /\ pc'[h] = "done"
                    /\ res'[h].status = "Patient not found"
                    /\ store' = store
              /\ (PatientExists(req[h].patient_id)
                  /\ ~DoctorExists(req[h].doctor_id)) =>
                    /\ pc'[h] = "done"
                    /\ res'[h].status = "Doctor not found"
                    /\ store' = store
              /\ (PatientExists(req[h].patient_id)
                  /\ DoctorExists(req[h].doctor_id)) =>
                    pc'[h] = "update_appointment_commit"]_vars

\* C13 witness: a reschedule of a stored appointment to a patient and a
\* doctor that both do not exist has been answered "Patient not found", the
\* appointment still as it was loaded.
C13_Witness ==
    \E h \in Handlers :
        /\ pc[h] = "done"
        /\ req[h].op = "update_appointment"
        /\ res[h].status = "Patient not found"
        /\ ~PatientExists(req[h].patient_id)
        /\ ~DoctorExists(req[h].doctor_id)
        /\ ApptExists(req[h].aid)
        /\ FindAppt(req[h].aid).patient_id # req[h].patient_id
        /\ FindAppt(req[h].aid).token_number = req[h].aid

\* The appointment rows other than the one with id aid.
Except(rows, aid) == {r \in rows : r.id # aid}

\* C14: a booking that succeeds adds exactly one appointment row, the one it
\* returns: its checks write nothing, its insert adds one row under a new id,
\* its token assignment touches that row only, and the row it returns is
\* that row as stored; patients, doctors and the appointments that were
\* there before stay as they were throughout.
C14_BookAddsOne ==
    [][\A h \in Handlers :
        /\ Taken(h, "create_appointment") => store' = store
        /\ (pc[h] = "create_appointment_insert"
            /\ pc'[h] = "create_appointment_token") =>
              /\ ~ApptExists(sess'[h].id)
              /\ appts \subseteq appts'
              /\ Cardinality(appts') = Cardinality(appts) + 1
              /\ \A r \in appts' \ appts :
                    /\ r.id = sess'[h].id
                    /\ r.patient_id = req[h].patient_id
                    /\ r.doctor_id = req[h].doctor_id
                    /\ r.date = req[h].date /\ r.time = req[h].time
              /\ patients' = patients /\ doctors' = doctors
        /\ (pc[h] = "create_appointment_token"
            /\ pc'[h] = "create_appointment_return") =>
              /\ Except(appts', sess[h].id) = Except(appts, sess[h].id)
              /\ Cardinality(appts') = Cardinality(appts)
              /\ patients' = patients /\ doctors' = doctors
        /\ (pc[h] = "create_appointment_return"
            /\ Sent(h) /\ res'[h].status = "ok") =>
              /\ store' = store
              /\ res'[h].appt \in appts'
              /\ res'[h].appt.id = sess[h].id
              /\ Cardinality(appts' \ Except(appts', sess[h].id)) = 1]_vars

\* C14 witness: a booking has returned its row while an appointment booked
\* earlier is stored next to it, still with its own token.
C14_Witness ==
    \E h \in Handlers :
        /\ pc[h] = "done"
        /\ req[h].op = "create_appointment"
        /\ res[h].status = "ok"
        /\ res[h].appt \in appts
        /\ \E r \in appts :
              /\ r.id < res[h].appt.id
              /\ r.id \in booked
              /\ r.token_number = r.id

\* C15: a cancel that succeeds removes the appointment it names and nothing
\* else: that row was stored and is gone, every other appointment is as it
\* was, and so are the patients and doctors, the cancelled appointment's own
\* patient and doctor among them.
C15_CancelRemovesOne ==
    [][\A h \in Handlers :
        /\ Taken(h, "delete_appointment") => store' = store
        /\ (pc[h] = "delete_appointment_commit"
            /\ Sent(h) /\ res'[h].status = "ok") =>
              /\ ApptExists(req[h].aid)
              /\ appts' = appts \ {FindAppt(req[h].aid)}
              /\ Cardinality(appts') = Cardinality(appts) - 1
              /\ patients' = patients /\ doctors' = doctors
              /\ FindAppt(req[h].aid).patient_id \in patients'
              /\ FindAppt(req[h].aid).doctor_id \in doctors']_vars

\* C15 witness: of the two appointments of the only patient with the only
\* doctor one has been cancelled; the other, the patient and the doctor are
\* still stored.
C15_Witness ==
    \E h \in Handlers :
        /\ pc[h] = "done"
        /\ req[h].op = "delete_appointment"
        /\ res[h].status = "ok"
        /\ req[h].aid \in cancelled
        /\ ~ApptExists(req[h].aid)
        /\ booked = {1, 2}
        /\ Cardinality(appts) = 1
        /\ patients = {1} /\ nextPatientId = 2
        /\ doctors = {1} /\ nextDoctorId = 2

\* C16: the delete cascade follows the references an appointment has now,
\* not those it was booked with.  For an appointment a reschedule has moved
\* to another patient, deleting the patient it was booked for leaves it
\* stored and unchanged, and deleting the patient it has now removes it; the
\* same for an appointment moved to another doctor.
C16_CascadeFollowsMove ==
    [][\A h \in Handlers :
        /\ (pc[h] = "delete_patient_commit" /\ Sent(h) /\ res'[h].status = "ok") =>
              \A r \in appts, o \in origin :
                  (o[1] = r.id /\ o[2] # r.patient_id) =>
                      /\ req[h].patient_id = o[2] => r \in appts'
                      /\ req[h].patient_id = r.patient_id =>
                            ~(\E x \in appts' : x.id = r.id)
        /\ (pc[h] = "delete_doctor_commit" /\ Sent(h) /\ res'[h].status = "ok") =>
              \A r \in appts, o \in origin :
                  (o[1] = r.id /\ o[3] # r.doctor_id) =>
                      /\ req[h].doctor_id = o[3] => r \in appts'
                      /\ req[h].doctor_id = r.doctor_id =>
                            ~(\E x \in appts' : x.id = r.id)]_vars

\* C16 witness: an appointment booked for one patient and moved to another
\* is still stored after the patient it was booked for has been deleted.
C16_Witness ==
    \E h \in Handlers :
        /\ pc[h] = "done"
        /\ req[h].op = "delete_patient"
        /\ res[h].status = "ok"
        /\ \E r \in appts, o \in origin :
              /\ o[1] = r.id
              /\ o[2] = req[h].patient_id
              /\ o[2] \notin patients
              /\ r.patient_id # o[2]
              /\ r.patient_id \in patients
              /\ r.token_number = r.id

====
